---- MODULE Spec2Model ----
(***************************************************************************)
(* create_feature_graphic.py: one routine that paints a vertical gradient  *)
(* on a 1024x500 RGBA canvas, pastes the resized app icon with its alpha   *)
(* as mask, draws three texts and saves the canvas as a PNG.               *)
(*                                                                         *)
(* The canvas is modelled pixel by pixel on a sample of its pixels         *)
(* (SampleCols x SampleRows, in real canvas coordinates); every drawing    *)
(* call acts on each pixel independently of the others, so a sampled pixel *)
(* gets exactly the value the full canvas has there.  The file system (the *)
(* icon file, the font file) and the glyph rasteriser are the environment: *)
(* env records what the routine has found there so far, and a later read   *)
(* finds the same.                                                         *)
(***************************************************************************)
EXTENDS Integers, Sequences, FiniteSets, TLC

VARIABLES
    pc,             \* where the routine is
    y,              \* the gradient loop's row
    rgb,            \* the loop's r, g, b
    img,            \* the canvas
    icon,           \* the local icon: nothing, the opened or the resized image
    title_font,
    subtitle_font,
    stdout,         \* the lines printed by this run
    outFile,        \* flow_ai_feature_graphic.png
    env,            \* what has been read of the files and fonts
    truetypeCalls,  \* ImageFont.truetype calls of this run
    texts,          \* draw.text calls of this run
    saves,          \* img.save calls of this run that wrote the file
    run             \* which run of the script this is

vars == <<pc, y, rgb, img, icon, title_font, subtitle_font, stdout, outFile, env,
          truetypeCalls, texts, saves, run>>

\* ---------------------------------------------------------------- constants

width == 1024
height == 500
icon_size == 300
icon_x == 80
icon_y == (height - icon_size) \div 2
font_size == 60
subtitle_size == 32
text_x == 420
title_y == 120
subtitle_y == 200
description_y == 280

\* ------------------------------------------------------------------- bounds

\* The canvas columns and rows the model keeps: the canvas edges, the icon
\* box's edges and their outer neighbours, the text column and the three
\* text rows, and pairs of neighbouring rows.
SampleCols == {0, 79, 80, 379, 380, 420, 1023}
SampleRows == {0, 1, 99, 100, 119, 120, 200, 249, 250, 280, 399, 400, 498, 499}
Pix == SampleCols \X SampleRows

\* Mask values: transparent, partially transparent, opaque.
IconAlphas == {0, 128, 255}
GlyphCoverage == {0, 128, 255}

\* How many times the script is run, one run after the other.
MaxRuns == 2

None == "None"
Unknown == "unknown"

\* ------------------------------------------------------------------ helpers

\* Faulty variant: the quotient y / height taken as an integer division.
Lerp_intdiv(a, b, yy) == a + (yy \div height) * b

\* Faulty variant: the gradient runs from light at the top to dark at the bottom.
Lerp_reversed(a, b, yy) == ((a + b) * height - b * yy) \div height

\* int(a + (y / height) * b).  The quotient is computed in double precision
\* by the code; for height = 500 and every y in 0..499 the truncated double
\* equals the exact floor below for the three (a, b) pairs used.
Lerp(a, b, yy) == (a * height + b * yy) \div height

GradientColour(yy) == <<Lerp(20, 40, yy), Lerp(50, 80, yy), Lerp(100, 100, yy)>>

\* ImageDraw turns an RGB fill into the ink of an RGBA image: alpha 255.
Ink(fill) == <<fill[1], fill[2], fill[3], 255>>

\* Faulty variant: the size given as (height, width).
ImageNew_swapped == [size |-> <<height, width>>, mode |-> "RGBA",
                     px |-> [p \in Pix |-> <<0, 0, 0, 0>>]]

\* Image.new('RGBA', (width, height), (0, 0, 0, 0))
ImageNew == [size |-> <<width, height>>, mode |-> "RGBA",
             px |-> [p \in Pix |-> <<0, 0, 0, 0>>]]

\* Faulty variant: the rectangle's first row is left out.
Rectangle_skipsFirstRow(im, x0, y0, x1, y1, fill) ==
    [im EXCEPT !.px = [p \in DOMAIN im.px |->
        IF x0 <= p[1] /\ p[1] <= x1 /\ y0 < p[2] /\ p[2] <= y1
        THEN <<fill[1], fill[2], fill[3], 255>> ELSE im.px[p]]]

\* draw.rectangle([(x0, y0), (x1, y1)], fill): both corners are inside the
\* rectangle; what lies outside the image is clipped.
Rectangle(im, x0, y0, x1, y1, fill) ==
    [im EXCEPT !.px = [p \in DOMAIN im.px |->
        IF x0 <= p[1] /\ p[1] <= x1 /\ y0 <= p[2] /\ p[2] <= y1
        THEN Ink(fill) ELSE im.px[p]]]

\* libImaging's DIV255 and BLEND on 8-bit channels.
DIV255(a) == LET tmp == a + 128 IN ((tmp \div 256) + tmp) \div 256
BLEND(mask, in1, in2) == DIV255(in1 * (255 - mask) + in2 * mask)

\* One pixel of a masked fill or paste: each of the four bands, alpha
\* included, moves from dst towards src by the mask value.
BlendPixel(mask, dst, src) ==
    <<BLEND(mask, dst[1], src[1]), BLEND(mask, dst[2], src[2]),
      BLEND(mask, dst[3], src[3]), BLEND(mask, dst[4], src[4])>>

\* -------------------------------------------------------------- environment

\* What flow_ai_icon_512.png may be.  kind: absent (open fails), truncated
\* (open reads the header, resize fails on the data) or ok.  An RGB icon has
\* no alpha band.  rgb, left and right give the resampled 300x300 image: its
\* colour, and its alpha in its left and right half.
IconFile(kind, size, mode, colour, left, right) ==
    [kind |-> kind, size |-> <<size, size>>, mode |-> mode, rgb |-> colour,
     left |-> left, right |-> right]

UnknownFile == IconFile(Unknown, 0, None, <<0, 0, 0>>, 0, 0)

IconFiles ==
    { IconFile("absent", 0, None, <<0, 0, 0>>, 0, 0),
      IconFile("truncated", 512, "RGBA", <<0, 0, 0>>, 0, 0),
      IconFile("ok", 512, "RGB", <<255, 128, 0>>, 255, 255) }
    \cup { IconFile("ok", 512, "RGBA", <<255, 128, 0>>, l, r) :
              l \in IconAlphas, r \in IconAlphas }
    \cup { IconFile("ok", 64, "RGBA", <<10, 200, 90>>, 255, 0),
           IconFile("ok", 2048, "RGBA", <<10, 200, 90>>, 128, 255) }

NoImage == [size |-> <<0, 0>>, mode |-> None, rgb |-> <<0, 0, 0>>,
            left |-> 0, right |-> 0]

\* Image.open(path): the image the file holds.
ImageOpen(f) == [size |-> f.size, mode |-> f.mode, rgb |-> f.rgb,
                 left |-> f.left, right |-> f.right]

\* icon.resize((w, h), LANCZOS): a new image of the size asked for, in the
\* source's mode, holding the resampled pixels.
Resize(im, w, h) == [im EXCEPT !.size = <<w, h>>]

\* im.getpixel((i, j)) of an opened or resized icon.
PixelAt(im, i, j) ==
    <<im.rgb[1], im.rgb[2], im.rgb[3],
      IF im.mode # "RGBA" THEN 255
      ELSE IF 2 * i < im.size[1] THEN im.left ELSE im.right>>

\* img.paste(src, (bx, by), mask) refuses a mask that has no alpha band.
PasteFails(mask) == mask.mode \notin {"1", "L", "LA", "RGBA"}

\* Faulty variant: the paste without its mask, img.paste(src, (bx, by)).
Paste_noMask(im, src, bx, by, mask) ==
    [im EXCEPT !.px = [p \in DOMAIN im.px |->
        LET i == p[1] - bx
            j == p[2] - by
        IN IF 0 <= i /\ i < src.size[1] /\ 0 <= j /\ j < src.size[2]
           THEN PixelAt(src, i, j)
           ELSE im.px[p]]]

\* img.paste(src, (bx, by), mask) with an RGBA mask: inside the box every
\* band of the canvas is blended with src by the mask's alpha; the rest of
\* the canvas, and its size, stay.
Paste(im, src, bx, by, mask) ==
    [im EXCEPT !.px = [p \in DOMAIN im.px |->
        LET i == p[1] - bx
            j == p[2] - by
        IN IF 0 <= i /\ i < src.size[1] /\ 0 <= j /\ j < src.size[2]
           THEN BlendPixel(PixelAt(mask, i, j)[4], im.px[p], PixelAt(src, i, j))
           ELSE im.px[p]]]

\* Fonts.
TrueType(size) == [path |-> "/System/Library/Fonts/Helvetica.ttc", size |-> size]
DefaultFont == [path |-> "default", size |-> 0]
NoFont == [path |-> None, size |-> 0]
Fonts == {TrueType(font_size), TrueType(subtitle_size), DefaultFont}

\* Faulty variant: what is drawn depends on which run draws it, as a date would.
DrawText_dated(im, x0, y0, fill, cov) ==
    [im EXCEPT !.px = [p \in DOMAIN im.px |->
        IF x0 <= p[1] /\ y0 <= p[2]
        THEN BlendPixel(IF run = 1 THEN cov ELSE 255 - cov, im.px[p],
                        <<fill[1], fill[2], fill[3], 255>>)
        ELSE im.px[p]]]

\* draw.text(xy, text, fill, font): the glyph mask of the text is laid with
\* its corner at xy and the ink is blended in by the mask, band by band.
\* The glyphs' extent is the font's; a draw reaches no pixel left of or
\* above xy, and cov is the mask's value on the sampled pixels it reaches.
\* (Where the canvas is transparent, alpha 0, newer Pillow versions weigh
\* the mask by the canvas alpha; no text pixel of this canvas is.)
DrawText(im, x0, y0, fill, cov) ==
    [im EXCEPT !.px = [p \in DOMAIN im.px |->
        IF x0 <= p[1] /\ y0 <= p[2]
        THEN BlendPixel(cov, im.px[p], Ink(fill)) ELSE im.px[p]]]

\* r, g and b before the loop assigns them.
NoColour == <<0, 0, 0>>

NoFile == [size |-> <<0, 0>>, mode |-> None, px |-> << >>]

Env0 == [icon |-> UnknownFile, font60 |-> Unknown, font32 |-> Unknown,
         glyph |-> [f \in Fonts |-> -1]]

\* A read of the environment finds v: either nothing was known, or v was.
Finds(known, unknown, v) == known = unknown \/ known = v

\* -------------------------------------------------------------------- state

Locals0 ==
    /\ pc = "gradient"
    /\ y = 0
    /\ rgb = NoColour
    /\ img = ImageNew
    /\ icon = NoImage
    /\ title_font = NoFont
    /\ subtitle_font = NoFont
    /\ stdout = << >>
    /\ saves = 0
    /\ texts = 0
    /\ truetypeCalls = 0

Init ==
    /\ Locals0
    /\ outFile = NoFile
    /\ env = Env0
    /\ run = 1

\* for y in range(height): ... draw.rectangle([(0, y), (width, y+1)], fill)
GradientRow ==
    /\ pc = "gradient"
    /\ y < height
    /\ rgb' = GradientColour(y)
    /\ img' = Rectangle(img, 0, y, width, y + 1, rgb')
    /\ y' = y + 1
    /\ pc' = IF y + 1 < height THEN "gradient" ELSE "icon"
    /\ UNCHANGED <<icon, title_font, subtitle_font, stdout, outFile, env,
                   texts, saves, truetypeCalls, run>>

\* except Exception as e: print(f"Could not load icon: {e}")
IconDiagnostic == "Could not load icon"

\* Faulty variant: no except clause around the icon step.
IconOpenFails_uncaught ==
    /\ pc = "icon"
    /\ \E f \in IconFiles :
          /\ Finds(env.icon, UnknownFile, f)
          /\ f.kind = "absent"
          /\ env' = [env EXCEPT !.icon = f]
    /\ pc' = "error"
    /\ UNCHANGED <<y, rgb, img, icon, title_font, subtitle_font, stdout, outFile,
                   texts, saves, truetypeCalls, run>>

\* Image.open raises: the file is not there.
IconOpenFails ==
    /\ pc = "icon"
    /\ \E f \in IconFiles :
          /\ Finds(env.icon, UnknownFile, f)
          /\ f.kind = "absent"
          /\ env' = [env EXCEPT !.icon = f]
    /\ stdout' = Append(stdout, IconDiagnostic)
    /\ pc' = "font"
    /\ UNCHANGED <<y, rgb, img, icon, title_font, subtitle_font, outFile,
                   texts, saves, truetypeCalls, run>>

\* Image.open succeeds and icon.resize raises: icon stays the opened image.
IconResizeFails ==
    /\ pc = "icon"
    /\ \E f \in IconFiles :
          /\ Finds(env.icon, UnknownFile, f)
          /\ f.kind = "truncated"
          /\ env' = [env EXCEPT !.icon = f]
          /\ icon' = ImageOpen(f)
    /\ stdout' = Append(stdout, IconDiagnostic)
    /\ pc' = "font"
    /\ UNCHANGED <<y, rgb, img, title_font, subtitle_font, outFile,
                   texts, saves, truetypeCalls, run>>

\* open and resize succeed and img.paste raises on the mask.
IconPasteFails ==
    /\ pc = "icon"
    /\ \E f \in IconFiles :
          /\ Finds(env.icon, UnknownFile, f)
          /\ f.kind = "ok"
          /\ PasteFails(Resize(ImageOpen(f), icon_size, icon_size))
          /\ env' = [env EXCEPT !.icon = f]
          /\ icon' = Resize(ImageOpen(f), icon_size, icon_size)
    /\ stdout' = Append(stdout, IconDiagnostic)
    /\ pc' = "font"
    /\ UNCHANGED <<y, rgb, img, title_font, subtitle_font, outFile,
                   texts, saves, truetypeCalls, run>>

\* The whole try block runs: img.paste(icon, (icon_x, icon_y), icon).
IconPasted ==
    /\ pc = "icon"
    /\ \E f \in IconFiles :
          /\ Finds(env.icon, UnknownFile, f)
          /\ f.kind = "ok"
          /\ ~PasteFails(Resize(ImageOpen(f), icon_size, icon_size))
          /\ env' = [env EXCEPT !.icon = f]
          /\ icon' = Resize(ImageOpen(f), icon_size, icon_size)
    /\ img' = Paste(img, icon', icon_x, icon_y, icon')
    /\ pc' = "font"
    /\ UNCHANGED <<y, rgb, title_font, subtitle_font, stdout, outFile,
                   texts, saves, truetypeCalls, run>>

\* title_font = ImageFont.truetype(path, font_size).  When it raises, the bare
\* except assigns the default font to both names.
FontTitle ==
    /\ pc = "font"
    /\ truetypeCalls' = truetypeCalls + 1
    /\ \E r \in {"ok", "missing"} :
          /\ Finds(env.font60, Unknown, r)
          /\ env' = [env EXCEPT !.font60 = r]
          /\ IF r = "ok"
             THEN /\ title_font' = TrueType(font_size)
                  /\ subtitle_font' = subtitle_font
                  /\ pc' = "font32"
             ELSE /\ title_font' = DefaultFont
                  /\ subtitle_font' = DefaultFont
                  /\ pc' = "title"
    /\ UNCHANGED <<y, rgb, img, icon, stdout, outFile, texts, saves, run>>

\* Faulty variant: the except clause assigns the default font to subtitle_font only.
FontSubtitle_keepsTitle ==
    /\ pc = "font32"
    /\ truetypeCalls' = truetypeCalls + 1
    /\ \E r \in {"ok", "missing"} :
          /\ Finds(env.font32, Unknown, r)
          /\ env' = [env EXCEPT !.font32 = r]
          /\ subtitle_font' = IF r = "ok" THEN TrueType(subtitle_size)
                                          ELSE DefaultFont
    /\ title_font' = title_font
    /\ pc' = "title"
    /\ UNCHANGED <<y, rgb, img, icon, stdout, outFile, texts, saves, run>>

\* subtitle_font = ImageFont.truetype(path, 32).  When it raises, the bare
\* except assigns the default font to both names, title_font included.
FontSubtitle ==
    /\ pc = "font32"
    /\ truetypeCalls' = truetypeCalls + 1
    /\ \E r \in {"ok", "missing"} :
          /\ Finds(env.font32, Unknown, r)
          /\ env' = [env EXCEPT !.font32 = r]
          /\ IF r = "ok"
             THEN /\ subtitle_font' = TrueType(subtitle_size)
                  /\ title_font' = title_font
             ELSE /\ title_font' = DefaultFont
                  /\ subtitle_font' = DefaultFont
    /\ pc' = "title"
    /\ UNCHANGED <<y, rgb, img, icon, stdout, outFile, texts, saves, run>>

\* One draw.text call: the rasteriser's mask for the font is read from the
\* environment and the text is drawn.
Text(at, next, y0, fill, font) ==
    /\ pc = at
    /\ \E c \in GlyphCoverage :
          /\ Finds(env.glyph[font], -1, c)
          /\ env' = [env EXCEPT !.glyph[font] = c]
          /\ img' = DrawText(img, text_x, y0, fill, c)
    /\ texts' = texts + 1
    /\ pc' = next
    /\ UNCHANGED <<y, rgb, icon, title_font, subtitle_font, stdout, outFile,
                   saves, truetypeCalls, run>>

\* draw.text((text_x, 120), title_text, fill=(255, 255, 255), font=title_font)
DrawTitle == Text("title", "subtitle", title_y, <<255, 255, 255>>, title_font)

\* draw.text((text_x, 200), subtitle_text, fill=(200, 220, 255), font=subtitle_font)
DrawSubtitle ==
    Text("subtitle", "description", subtitle_y, <<200, 220, 255>>, subtitle_font)

\* draw.text((text_x, 280), description_text, fill=(180, 200, 255), font=subtitle_font)
DrawDescription ==
    Text("description", "save", description_y, <<180, 200, 255>>, subtitle_font)

\* img.save('flow_ai_feature_graphic.png', 'PNG') writes the canvas.
Save ==
    /\ pc = "save"
    /\ outFile' = [size |-> img.size, mode |-> img.mode, px |-> img.px]
    /\ saves' = saves + 1
    /\ pc' = "saved"
    /\ UNCHANGED <<y, rgb, img, icon, title_font, subtitle_font, stdout, env,
                   truetypeCalls, texts, run>>

\* Faulty variant: the failure of the save is caught and passed over.
SaveFails_swallowed ==
    /\ pc = "save"
    /\ pc' = "saved"
    /\ UNCHANGED <<y, rgb, img, icon, title_font, subtitle_font, stdout, outFile,
                   env, texts, saves, truetypeCalls, run>>

\* img.save raises (the path cannot be written): nothing catches it.
SaveFails ==
    /\ pc = "save"
    /\ pc' = "error"
    /\ UNCHANGED <<y, rgb, img, icon, title_font, subtitle_font, stdout, outFile,
                   env, texts, saves, truetypeCalls, run>>

ConfirmCreated == "Feature graphic created: flow_ai_feature_graphic.png"

\* print("Feature graphic created: ...")
PrintCreated ==
    /\ pc = "saved"
    /\ stdout' = Append(stdout, ConfirmCreated)
    /\ pc' = "created"
    /\ UNCHANGED <<y, rgb, img, icon, title_font, subtitle_font, outFile, env,
                   texts, saves, truetypeCalls, run>>

\* print(f"Size: {width}x{height} pixels"), and the routine returns.
PrintSize ==
    /\ pc = "created"
    /\ stdout' = Append(stdout, "Size: 1024x500 pixels")
    /\ pc' = "done"
    /\ UNCHANGED <<y, rgb, img, icon, title_font, subtitle_font, outFile, env,
                   texts, saves, truetypeCalls, run>>

\* if __name__ == "__main__": create_feature_graphic(), a second time: a new
\* process with new locals, the same files and fonts, and the output file the
\* first run left.
Restart ==
    /\ pc \in {"done", "error"}
    /\ run < MaxRuns
    /\ run' = run + 1
    /\ pc' = "gradient"
    /\ y' = 0
    /\ rgb' = NoColour
    /\ img' = ImageNew
    /\ icon' = NoImage
    /\ title_font' = NoFont
    /\ subtitle_font' = NoFont
    /\ stdout' = << >>
    /\ saves' = 0
    /\ texts' = 0
    /\ truetypeCalls' = 0
    /\ UNCHANGED <<outFile, env>>

Next ==
    \/ GradientRow
    \/ IconOpenFails
    \/ IconResizeFails
    \/ IconPasteFails
    \/ IconPasted
    \/ FontTitle
    \/ FontSubtitle
    \/ DrawTitle
    \/ DrawSubtitle
    \/ DrawDescription
    \/ Save
    \/ SaveFails
    \/ PrintCreated
    \/ PrintSize

Spec == Init /\ [][Next]_vars

NextRerun == Next \/ Restart

SpecRerun == Init /\ [][NextRerun]_vars

\* ------------------------------------------------------------------ claims

\* The icon's box on the canvas, as the claims state it.
InBox(p) == 80 <= p[1] /\ p[1] < 380 /\ 100 <= p[2] /\ p[2] < 400

Abs(n) == IF n < 0 THEN -n ELSE n

Printed(line) == \E k \in 1 .. Len(stdout) : stdout[k] = line

\* The icon file is one on which open, resize or paste fails.
IconBad(f) == f.kind \in {"absent", "truncated"} \/ f.mode # "RGBA"

\* The icon step is over and failed.
IconStepFailed == pc \notin {"gradient", "icon"} /\ IconBad(env.icon)

\* C1: once the gradient loop has run to completion, every pixel (x, y) has
\* red = trunc(20 + 40*y/500), green = trunc(50 + 80*y/500) and
\* blue = trunc(100 + 100*y/500): row y holds the colour of iteration y, not
\* that of iteration y-1, whose rectangle reached row y too; and iteration y,
\* for every y from 0 to 499, computes that colour and leaves it on row y.
C1_GradientRows ==
    /\ [](pc = "icon" =>
            \A p \in Pix :
                /\ img.px[p][1] = 20 + (40 * p[2]) \div 500
                /\ img.px[p][2] = 50 + (80 * p[2]) \div 500
                /\ img.px[p][3] = 100 + (100 * p[2]) \div 500)
    /\ [][pc = "gradient" =>
            /\ rgb' = <<20 + (40 * y) \div 500, 50 + (80 * y) \div 500,
                        100 + (100 * y) \div 500>>
            /\ \A p \in Pix : p[2] = y =>
                  img'.px[p] = <<rgb'[1], rgb'[2], rgb'[3], 255>>]_vars

\* C1, its case: the loop is over; row 100, which iteration 99 had painted
\* with its own colour, and the last row, hold their own colours.
C1_Witness ==
    /\ pc = "icon"
    /\ y = 500
    /\ img.px[<<0, 100>>] = <<28, 66, 120, 255>>
    /\ img.px[<<0, 100>>] # Ink(GradientColour(99))
    /\ img.px[<<1023, 499>>] = <<59, 129, 199, 255>>

\* C2 as stated: for every row y of the gradient, red is floor(20 + 80*y/500)
\* and green is floor(50 + 130*y/500) within 1, and the row is of one colour.
C2_AsStated ==
    pc = "icon" =>
        \A p \in Pix :
            /\ Abs(img.px[p][1] - (20 + (80 * p[2]) \div 500)) <= 1
            /\ Abs(img.px[p][2] - (50 + (130 * p[2]) \div 500)) <= 1
            /\ \A q \in Pix : q[2] = p[2] => img.px[q] = img.px[p]

\* C2, amended: for every row y of the gradient, red is floor(20 + 40*y/500)
\* and green is floor(50 + 80*y/500), within 1, and the row is of one colour;
\* the red and green that iteration y computes, for every y from 0 to 499,
\* are within 1 of these.
C2_RowColours ==
    /\ [](pc = "icon" =>
            \A p \in Pix :
                /\ Abs(img.px[p][1] - (20 + (40 * p[2]) \div 500)) <= 1
                /\ Abs(img.px[p][2] - (50 + (80 * p[2]) \div 500)) <= 1
                /\ \A q \in Pix : q[2] = p[2] => img.px[q] = img.px[p])
    /\ [][pc = "gradient" =>
            /\ Abs(rgb'[1] - (20 + (40 * y) \div 500)) <= 1
            /\ Abs(rgb'[2] - (50 + (80 * y) \div 500)) <= 1]_vars

\* C2, its case: the loop is over and row 250 holds red 40 and green 90 from
\* its first to its last column, where the stated formula gives 60 and 115.
C2_Witness ==
    /\ pc = "icon"
    /\ img.px[<<0, 250>>] = <<40, 90, 150, 255>>
    /\ img.px[<<1023, 250>>] = <<40, 90, 150, 255>>

\* The gradient's pixel at p, as section 4.1 of the specification gives it.
PureGradient(p) ==
    <<20 + (40 * p[2]) \div 500, 50 + (80 * p[2]) \div 500,
      100 + (100 * p[2]) \div 500, 255>>

\* C3: when open, resize or paste of the icon fails, the step prints the
\* "Could not load icon" diagnostic, leaves the canvas as it was and goes on
\* to the font step; from then on the icon's box holds the pure gradient,
\* the three texts are drawn and the save is reached: the routine ends in
\* error only out of the save, and when it is done the file has been written.
C3_IconFailureAbsorbed ==
    /\ [][pc = "icon" /\ IconBad(env'.icon) =>
            /\ img' = img
            /\ stdout' = Append(stdout, "Could not load icon")
            /\ pc' = "font"]_vars
    /\ [](IconStepFailed =>
            /\ Printed("Could not load icon")
            /\ \A p \in Pix : InBox(p) => img.px[p] = PureGradient(p)
            /\ pc = "font" => \A p \in Pix : img.px[p] = PureGradient(p)
            /\ pc = "done" => texts = 3 /\ saves = 1 /\ outFile.px = img.px)
    /\ [][IconStepFailed /\ pc' = "error" => pc = "save" /\ texts = 3]_vars

\* C3, its case: the icon has no alpha band, so the paste failed, and the
\* routine has drawn its texts, saved and returned.
C3_Witness ==
    /\ pc = "done"
    /\ env.icon.kind = "ok"
    /\ env.icon.mode = "RGB"
    /\ icon.size = <<300, 300>>
    /\ Printed("Could not load icon")
    /\ texts = 3
    /\ outFile.px[<<80, 100>>] = <<28, 66, 120, 255>>

\* C4: when the icon loads, the paste puts the 300x300 icon with its corner
\* at (80, 100) and its alpha as mask: canvas pixel (80+i, 100+j) keeps its
\* value where icon pixel (i, j) has alpha 0 and takes the icon's pixel where
\* it has alpha 255, and no pixel outside the box changes.
C4_MaskedPaste ==
    [][pc = "icon" /\ pc' = "font" /\ ~IconBad(env'.icon) =>
        /\ icon'.size = <<300, 300>>
        /\ \A p \in Pix :
              LET src == PixelAt(icon', p[1] - 80, p[2] - 100)
              IN /\ InBox(p) /\ src[4] = 0 => img'.px[p] = img.px[p]
                 /\ InBox(p) /\ src[4] = 255 => img'.px[p] = src
                 /\ ~InBox(p) => img'.px[p] = img.px[p]]_vars

\* C4, its case: an icon transparent on its left and opaque on its right has
\* been pasted: (80, 100) holds the gradient, (379, 399) the icon's colour,
\* and the pixels next to the box's corners hold the gradient.
C4_Witness ==
    /\ pc = "font"
    /\ env.icon.kind = "ok" /\ env.icon.mode = "RGBA"
    /\ env.icon.left = 0 /\ env.icon.right = 255
    /\ img.px[<<80, 100>>] = <<28, 66, 120, 255>>
    /\ img.px[<<379, 399>>] = <<255, 128, 0, 255>>
    /\ img.px[<<79, 100>>] = <<28, 66, 120, 255>>
    /\ img.px[<<380, 399>>] = PureGradient(<<380, 399>>)
    /\ img.px[<<379, 400>>] = PureGradient(<<379, 400>>)

AfterFont ==
    {"title", "subtitle", "description", "save", "saved", "created", "done",
     "error"}

\* C5: after the font step the two fonts are the system font at sizes 60 and
\* 32, both loads having succeeded, or both the default font, one load having
\* failed; truetype is called at most twice, and the font step never ends the
\* routine in error.
C5_FontFallback ==
    /\ [](pc \in AfterFont =>
            \/ /\ title_font = [path |-> "/System/Library/Fonts/Helvetica.ttc", size |-> 60]
               /\ subtitle_font = [path |-> "/System/Library/Fonts/Helvetica.ttc", size |-> 32]
               /\ env.font60 = "ok" /\ env.font32 = "ok"
            \/ /\ title_font = DefaultFont
               /\ subtitle_font = DefaultFont
               /\ env.font60 = "missing" \/ env.font32 = "missing")
    /\ [](truetypeCalls <= 2)
    /\ [][(pc = "font" \/ pc = "font32") => (pc' = "font32" \/ pc' = "title")]_vars

\* C5, its case: the size-60 load succeeded, the size-32 load failed, and
\* both fonts are the default.
C5_Witness ==
    /\ pc = "title"
    /\ env.font60 = "ok" /\ env.font32 = "missing"
    /\ title_font = DefaultFont /\ subtitle_font = DefaultFont
    /\ truetypeCalls = 2

\* C6: the canvas is 1024 wide and 500 high from its creation on, and the
\* file, once written, holds an image of 1024x500; a run that is done has
\* written it.
C6_Dimensions ==
    /\ img.size = <<1024, 500>>
    /\ outFile # NoFile => outFile.size = <<1024, 500>>
    /\ pc \in {"saved", "created", "done"} => outFile.size = <<1024, 500>>

\* C6, its case: a 2048x2048 icon was pasted, the system font was used, and
\* the run is done.
C6_Witness ==
    /\ pc = "done"
    /\ env.icon.size = <<2048, 2048>>
    /\ title_font.size = 60
    /\ outFile.size = <<1024, 500>>

\* C7: the file is written once at most, and only after the gradient, the
\* icon step and the three text draws; a confirmation line is printed only
\* after the file was written; a run that is done has written it and printed
\* both lines; a save that fails ends the routine in error with nothing
\* written and no confirmation printed.
C7_SaveOrder ==
    /\ [](/\ saves <= 1
          /\ saves = 1 => /\ y = 500
                           /\ pc \in {"saved", "created", "done"}
                           /\ env.icon # UnknownFile
                           /\ texts = 3
                           /\ outFile.px = img.px
          /\ (Printed(ConfirmCreated) \/ Printed("Size: 1024x500 pixels"))
                => saves = 1
          /\ pc = "done" => /\ saves = 1
                             /\ stdout[Len(stdout) - 1] = ConfirmCreated
                             /\ stdout[Len(stdout)] = "Size: 1024x500 pixels"
          /\ pc = "error" => saves = 0)
    /\ [][pc = "save" /\ saves' = saves => pc' = "error"]_vars
    /\ [][pc = "error" => pc' = "error" /\ stdout' = stdout]_vars

\* C7, its case: the save failed after the three text draws: the routine is
\* in error and has printed no confirmation.
C7_Witness ==
    /\ pc = "error"
    /\ texts = 3
    /\ saves = 0
    /\ ~Printed(ConfirmCreated)

C9_Monotone ==
    /\ [](pc = "icon" =>
            \A p, q \in Pix :
                /\ p[2] = q[2] => img.px[p] = img.px[q]
                /\ p[2] < q[2] => \A c \in 1 .. 3 : img.px[p][c] <= img.px[q][c]
                /\ p[2] = 0 /\ q[2] = 499 =>
                      \A c \in 1 .. 3 : img.px[p][c] < img.px[q][c])
    /\ [][pc = "gradient" /\ y >= 1 =>
            \A c \in 1 .. 3 : rgb[c] <= rgb'[c]]_vars

\* C9, its case: the loop is over, the top row is (20, 50, 100) and the
\* bottom row (59, 129, 199).
C9_Witness ==
    /\ pc = "icon"
    /\ img.px[<<0, 0>>] = <<20, 50, 100, 255>>
    /\ img.px[<<1023, 0>>] = <<20, 50, 100, 255>>
    /\ img.px[<<0, 499>>] = <<59, 129, 199, 255>>

\* C10: after the gradient every pixel of the canvas has alpha 255, and so
\* has every pixel of the file: neither the masked paste, for any alpha of
\* the icon, nor the text draws lower it.
C10_Opaque ==
    /\ pc # "gradient" => \A p \in Pix : img.px[p][4] = 255
    /\ outFile # NoFile => \A p \in Pix : outFile.px[p][4] = 255

====
